---- MODULE Spec2Model ----
(***************************************************************************)
(* A model of the two generators of the sample-data repository:            *)
(*   src/generators/Generate_Products.py  (product table builder)          *)
(*   src/generators/Generate_Reviews.py   (streaming review generator)     *)
(*                                                                         *)
(* Conventions                                                             *)
(*  - Real numbers are exact rationals.  A probability vector is a record  *)
(*    [num |-> <<n1..nk>>, den |-> d] standing for n_i / d; a scalar is    *)
(*    [n |-> a, d |-> b].  Floating-point rounding is not modelled.        *)
(*  - The seeded numpy Generator is a small linear congruential generator: *)
(*    its state is one number, every draw advances it, and the drawn value *)
(*    is a function of the state alone.                                    *)
(*  - A string that the code only copies is an atom; a string the code     *)
(*    takes apart (the output path, a product name split on "_") is a      *)
(*    structure holding the parts the code looks at.                       *)
(***************************************************************************)
EXTENDS Integers, Sequences, FiniteSets, TLC

VARIABLES
    \* review-count sampler called on its own
    cs_pc, cs_rng, cs_max, cs_result,
    \* rating adjuster called on its own
    ad_pc, ad_base, ad_bias, ad_moved, ad_result,
    \* safe_truncate called on its own, and once more on its result
    tr_pc, tr_text, tr_once, tr_twice,
    \* review generator: command line, input file, clock
    rv_args, rv_file, rv_now,
    \* review generator: locals of main()
    rv_pc, rv_rng, rv_out_is_parquet, rv_out_is_csv, rv_parquet_writer,
    rv_csv_header_written, rv_review_id_counter, rv_rows_out,
    \* review generator: the product iterator and the row loop
    rv_rg, rv_pending, rv_batch, rv_i, rv_product, rv_left,
    \* review generator: what the run wrote, how it ended, how often it drew
    rv_sink, rv_created, rv_error, rv_draws, rv_batches_read,
    \* review generator: the run number and the rows of the run before
    rv_run, rv_prev,
    \* product generator: command line, entropy of the system, locals of
    \* main(), the file written, the run number and the file of the run before
    pg_args, pg_entropy, pg_pc, pg_rng, pg_ids, pg_product_categories,
    pg_product_names, pg_written, pg_error, pg_run, pg_prev

csVars == <<cs_pc, cs_rng, cs_max, cs_result>>
adVars == <<ad_pc, ad_base, ad_bias, ad_moved, ad_result>>
trVars == <<tr_pc, tr_text, tr_once, tr_twice>>
rvInput == <<rv_args, rv_file>>
rvLocals == <<rv_rng, rv_out_is_parquet, rv_out_is_csv, rv_parquet_writer,
              rv_csv_header_written, rv_review_id_counter, rv_rows_out>>
rvIter == <<rv_rg, rv_pending, rv_batch, rv_i, rv_product, rv_left>>
rvOut == <<rv_sink, rv_created, rv_error, rv_draws, rv_batches_read>>
rvRuns == <<rv_run, rv_prev>>
rvVars == <<rvInput, rv_now, rv_pc, rvLocals, rvIter, rvOut, rvRuns>>
pgVars == <<pg_args, pg_entropy, pg_pc, pg_rng, pg_ids, pg_product_categories,
            pg_product_names, pg_written, pg_error, pg_run, pg_prev>>
vars == <<csVars, adVars, trVars, rvVars, pgVars>>

(***************************************************************************)
(* Bounds of the model                                                     *)
(***************************************************************************)
\* number of distinct states / values of the random generator
RngRange == 64
\* largest --max-reviews-per-product handed to the sampler on its own
MaxMaxReviews == 7
\* denominator of the base distributions handed to the adjuster on its own
BaseDen == 4
\* seeds are 0..MaxSeed
MaxSeed == 3
\* the input file has at most MaxRowGroups row groups of 1..MaxGroupRows rows
MaxRowGroups == 2
MaxGroupRows == 2
\* --batch-size is 1..MaxBatchSize
MaxBatchSize == 2
\* --max-reviews-per-product is 0..MaxReviewsArg, or TooManyReviews
MaxReviewsArg == 2
\* the clock shows 0..MaxClock days after the first possible start
MaxClock == 1
\* --rows is 0..MaxRows
MaxRows == 21
\* the longest of the short texts safe_truncate is called on
MaxShortLen == 3
\* how far the lengths of the long texts lie on either side of the cap
MaxOver == 2

(***************************************************************************)
(* Arithmetic helpers                                                      *)
(***************************************************************************)
Min(a, b) == IF a <= b THEN a ELSE b
Abs(a) == IF a < 0 THEN -a ELSE a

RECURSIVE Gcd(_, _)
Gcd(a, b) == IF b = 0 THEN a ELSE Gcd(b, a % b)

RECURSIVE SumTo(_, _)
SumTo(s, k) == IF k = 0 THEN 0 ELSE s[k] + SumTo(s, k - 1)
SumSeq(s) == SumTo(s, Len(s))

\* a rational in lowest terms, denominator positive
Reduce(r) ==
    LET g == Gcd(Abs(r.n), r.d)
    IN  IF g = 0 THEN r ELSE [n |-> r.n \div g, d |-> r.d \div g]

(***************************************************************************)
(* The random generator (numpy.random.default_rng(seed))                   *)
(***************************************************************************)
\* the generator's state after seeding: a function of the seed alone
default_rng(seed) == (seed * 23 + 9) % RngRange
\* one draw advances the state; the drawn raw value is the new state
RngNext(s) == (s * 5 + 3) % RngRange
\* rng.choice(a) / rng.integers(0, n): an index in 0..n-1 from the raw value
UniformIndex(raw, n) == raw % n
\* rng.choice(a, p): the first index whose cumulative weight exceeds the
\* uniform draw u = raw / RngRange; weights are num[i] / den, 1-based result
ChoiceP(raw, p) ==
    CHOOSE i \in 1..Len(p.num) :
        /\ SumTo(p.num, i) * RngRange > raw * p.den
        /\ \A j \in 1..(i - 1) : SumTo(p.num, j) * RngRange <= raw * p.den

(***************************************************************************)
(* choose_num_reviews                                                      *)
(***************************************************************************)
\* the literal weight list, in hundredths
NUM_REVIEW_WEIGHTS == <<20, 28, 22, 15, 10, 5>>
\* weights[: max_reviews + 1]
TruncatedWeights(max_reviews) ==
    SubSeq(NUM_REVIEW_WEIGHTS, 1, Min(max_reviews + 1, Len(NUM_REVIEW_WEIGHTS)))
\* weights /= weights.sum()
NormalisedWeights(max_reviews) ==
    LET w == TruncatedWeights(max_reviews)
    IN  [num |-> w, den |-> SumSeq(w)]
\* rng.choice(a, p=weights) raises ValueError unless a and p have the same size
ChoiceSizesAgree(max_reviews) ==
    Len(TruncatedWeights(max_reviews)) = max_reviews + 1
\* a sampler whose early return covers negative maxima only
ChooseNumReviewsDrawsAtZero(rng, max_reviews) ==
    IF max_reviews < 0
    THEN [ok |-> TRUE, n |-> 0, rng |-> rng]
    ELSE IF ~ChoiceSizesAgree(max_reviews)
         THEN [ok |-> FALSE, n |-> -1, rng |-> rng]
         ELSE LET raw == RngNext(rng)
              IN  [ok |-> TRUE,
                   n |-> ChoiceP(raw, NormalisedWeights(max_reviews)) - 1,
                   rng |-> raw]
\* the whole function: the count, the generator state afterwards, and
\* whether the call returned (ok) or raised
choose_num_reviews(rng, max_reviews) ==
    IF max_reviews < 1
    THEN [ok |-> TRUE, n |-> 0, rng |-> rng]
    ELSE IF ~ChoiceSizesAgree(max_reviews)
         THEN [ok |-> FALSE, n |-> -1, rng |-> rng]
         ELSE LET raw == RngNext(rng)
              IN  [ok |-> TRUE,
                   n |-> ChoiceP(raw, NormalisedWeights(max_reviews)) - 1,
                   rng |-> raw]

(***************************************************************************)
(* adjust_probs_for_category                                               *)
(***************************************************************************)
\* BASE_RATING_PROBS for ratings 1..5
BASE_RATING_PROBS == [num |-> <<7, 11, 22, 33, 27>>, den |-> 100]
\* CATEGORY_BIASES, in hundredths
CATEGORY_BIASES ==
    [Electronics |-> -10, Automotive |-> -8, Tools |-> -5,
     Clothing |-> 2, Shoes |-> 1, Toys |-> 3, Books |-> 8,
     Music |-> 6, Movies |-> 4, Health |-> 0, Beauty |-> 3,
     Grocery |-> 2, Home |-> 3, Garden |-> 1, Sports |-> 0,
     Office |-> 2, Pets |-> 4, Baby |-> 5, Outdoors |-> -2,
     Jewelry |-> 5, General |-> 0]
\* CATEGORY_BIASES.get(category, CATEGORY_BIASES.get("General", 0.0))
CategoryBias(category) ==
    IF category \in DOMAIN CATEGORY_BIASES
    THEN [n |-> CATEGORY_BIASES[category], d |-> 100]
    ELSE [n |-> CATEGORY_BIASES["General"], d |-> 100]
\* shift = max(min(bias * 0.5, 0.15), -0.15)
Shift(bias) ==
    IF 100 * bias.n > 30 * bias.d THEN Reduce([n |-> 15, d |-> 100])
    ELSE IF 100 * bias.n < -30 * bias.d THEN Reduce([n |-> -15, d |-> 100])
    ELSE Reduce([n |-> bias.n, d |-> 2 * bias.d])
\* the redistribution of one direction: mass shift*(src1+src2) leaves the two
\* source buckets in proportion and lands on the two target buckets, in
\* proportion to them, or evenly when both are zero.  s1, s2 are the source
\* indices and t1, t2 the target indices; sh is the positive magnitude.
MoveMass(probs, sh, s1, s2, t1, t2) ==
    LET p == probs.num
        srcSum == p[s1] + p[s2]
        addition_total == p[t1] + p[t2]
        \* factor from the old denominator to the common one
        f == IF addition_total <= 0 THEN 2 * sh.d ELSE sh.d * addition_total
        gain(t) == IF addition_total <= 0
                   THEN sh.n * srcSum
                   ELSE sh.n * srcSum * p[t]
    IN  IF sh.n * srcSum > 0
        THEN [num |-> [i \in 1..Len(p) |->
                         IF i \in {s1, s2} THEN p[i] * (sh.d - sh.n) * (f \div sh.d)
                         ELSE IF i \in {t1, t2} THEN p[i] * f + gain(i)
                         ELSE p[i] * f],
              den |-> probs.den * f]
        ELSE probs
\* a redistribution that moves mass from the low ratings to the high ones
\* whatever the sign of the shift
RedistributeUpOnly(probs, shift) ==
    MoveMass(probs, [n |-> Abs(shift.n), d |-> shift.d], 1, 2, 4, 5)
\* lines 108-129: low to high when shift > 0, high to low otherwise
Redistribute(probs, shift) ==
    IF shift.n > 0
    THEN MoveMass(probs, shift, 1, 2, 4, 5)
    ELSE MoveMass(probs, [n |-> -shift.n, d |-> shift.d], 4, 5, 1, 2)
\* a clip step that leaves every entry as it is
NoClip(probs) == probs
\* np.clip(probs, 1e-6, 1.0).  The result is kept over the denominator of the
\* argument when no entry is clipped, and over a million times it otherwise.
FloorDen == 1000000
NeedsClip(probs) ==
    \E i \in 1..Len(probs.num) :
        \/ probs.num[i] < (probs.den + FloorDen - 1) \div FloorDen
        \/ probs.num[i] > probs.den
ClipProbs(probs) ==
    IF ~NeedsClip(probs) THEN probs
    ELSE [num |-> [i \in 1..Len(probs.num) |->
                     IF probs.num[i] < (probs.den + FloorDen - 1) \div FloorDen
                     THEN probs.den
                     ELSE IF probs.num[i] > probs.den
                          THEN probs.den * FloorDen
                          ELSE probs.num[i] * FloorDen],
          den |-> probs.den * FloorDen]
\* probs /= probs.sum()
Renormalise(probs) == [num |-> probs.num, den |-> SumSeq(probs.num)]
\* the function body for a given table entry `bias`
AdjustForBias(base_probs, bias) ==
    IF bias.n = 0
    THEN base_probs
    ELSE Renormalise(ClipProbs(Redistribute(base_probs, Shift(bias))))
adjust_probs_for_category(base_probs, category) ==
    AdjustForBias(base_probs, CategoryBias(category))

(***************************************************************************)
(* Review generator: tables and helpers                                    *)
(***************************************************************************)
MAX_REVIEW_CHARS == 100000
DEFAULT_YEARS_BACK == 3
DAYS_PER_YEAR == 365

PERSONAS == <<
    [persona |-> "Tech Enthusiast",
     first_names |-> <<"Alex", "Jordan", "Taylor", "Sam", "Riley", "Casey">>,
     last_names |-> <<"Ng", "Patel", "Garcia", "Smith", "Khan", "Brown">>,
     age_range |-> <<22, 45>>,
     locations |-> <<"San Francisco, CA", "Berlin, DE", "London, UK", "Austin, TX">>,
     focus |-> "performance"],
    [persona |-> "Bargain Hunter",
     first_names |-> <<"Jamie", "Morgan", "Avery", "Charlie">>,
     last_names |-> <<"Diaz", "Chen", "O'Neill", "Lopez">>,
     age_range |-> <<25, 60>>,
     locations |-> <<"Nashville, TN", "Madrid, ES", "Chicago, IL">>,
     focus |-> "value"],
    [persona |-> "Parent Reviewer",
     first_names |-> <<"Pat", "Kelly", "Dana", "Robin">>,
     last_names |-> <<"Williams", "Miller", "Wilson", "Davis">>,
     age_range |-> <<30, 50>>,
     locations |-> <<"Seattle, WA", "Paris, FR", "Toronto, CA">>,
     focus |-> "durability"],
    [persona |-> "Outdoor Enthusiast",
     first_names |-> <<"Blake", "Drew", "Harper", "Parker">>,
     last_names |-> <<"Hunt", "Stone", "Wells", "Fisher">>,
     age_range |-> <<20, 55>>,
     locations |-> <<"Denver, CO", "Vancouver, CA", "Rotorua, NZ">>,
     focus |-> "weatherproofing"],
    [persona |-> "Home Chef",
     first_names |-> <<"Maya", "Noah", "Liam", "Ivy">>,
     last_names |-> <<"Singh", "Martinez", "Rossi", "Keller">>,
     age_range |-> <<24, 65>>,
     locations |-> <<"Rome, IT", "Melbourne, AU", "Boston, MA">>,
     focus |-> "ease_of_use"],
    [persona |-> "Audiophile",
     first_names |-> <<"Evan", "Kai", "Zoe", "Nina">>,
     last_names |-> <<"Park", "Hernandez", "Lopez", "Morris">>,
     age_range |-> <<18, 50>>,
     locations |-> <<"Tokyo, JP", "Seoul, KR", "Brooklyn, NY">>,
     focus |-> "sound_quality"],
    [persona |-> "Frequent Traveler",
     first_names |-> <<"Chris", "Patrice", "Jo", "Samir">>,
     last_names |-> <<"Baker", "Singh", "Ali", "Johnson">>,
     age_range |-> <<28, 58>>,
     locations |-> <<"Dubai, AE", "Singapore, SG", "Los Angeles, CA">>,
     focus |-> "portability"],
    [persona |-> "Pet Owner",
     first_names |-> <<"Lena", "Omar", "Bea", "Hannah">>,
     last_names |-> <<"Ramirez", "Gonzalez", "Brown", "Evans">>,
     age_range |-> <<21, 70>>,
     locations |-> <<"Minneapolis, MN", "Dublin, IE", "Lima, PE">> ,
     focus |-> "safety"] >>

\* the generator state after k further draws: the first half of the draws
\* leaves a state, the remaining draws start from that state
RECURSIVE RngAfter(_, _)
RngAfter(s, k) ==
    IF k = 0 THEN s
    ELSE IF k = 1 THEN RngNext(s)
    ELSE CHOOSE r \in { RngAfter(mid, k - (k \div 2)) :
                          mid \in {RngAfter(s, k \div 2)} } : TRUE
\* rng.choice(seq): the element at the drawn index
Pick(raw, seq) == seq[UniformIndex(raw, Len(seq)) + 1]

\* sample_persona: five draws (persona, first, last, age, location)
sample_persona(rng) ==
    LET persona == Pick(RngAfter(rng, 1), PERSONAS)
        first == Pick(RngAfter(rng, 2), persona.first_names)
        last == Pick(RngAfter(rng, 3), persona.last_names)
        lo == persona.age_range[1]
        hi == persona.age_range[2] + 1
        age == lo + UniformIndex(RngAfter(rng, 4), hi - lo)
        location == Pick(RngAfter(rng, 5), persona.locations)
    IN  [info |-> [reviewer_name |-> <<first, " ", last>>,
                   reviewer_persona |-> persona.persona,
                   reviewer_age |-> age,
                   reviewer_location |-> location,
                   persona_focus |-> persona.focus],
         rng |-> RngAfter(rng, 5)]

\* choose_rating_for_category: one draw against the adjusted distribution
choose_rating_for_category(rng, category) ==
    LET probs == adjust_probs_for_category(BASE_RATING_PROBS, category)
        raw == RngNext(rng)
    IN  [rating |-> ChoiceP(raw, probs), rng |-> raw]

\* sample_review_date: the clock is read, then one draw over the window.
\* Time is counted in days; the formatted string names the day it is given.
strftime(day) == day
sample_review_date(rng, now, years_back) ==
    LET start == now - DAYS_PER_YEAR * years_back
        raw == RngNext(rng)
        random_days == UniformIndex(raw, (now - start) + 1)
    IN  [review_date |-> strftime(start + random_days), rng |-> raw]

\* safe_truncate: text[: max_chars - 1] when the text is longer than the cap
safe_truncate(text, max_chars) ==
    IF Len(text) <= max_chars THEN text ELSE SubSeq(text, 1, max_chars - 1)

\* the lead-in chosen by the persona's focus tag
PersonaPhrase(focus) ==
    CASE focus = "performance" -> "As someone who values performance, "
      [] focus = "value" -> "As someone who looks for value, "
      [] focus = "durability" -> "With kids in the house, "
      [] focus = "weatherproofing" -> "I use it outdoors often, so "
      [] focus = "ease_of_use" -> "I cook a lot and care about ease of use, so "
      [] focus = "sound_quality" -> "As an audiophile, "
      [] focus = "portability" -> "I travel a lot, so "
      [] focus = "safety" -> "With pets around, "
      [] OTHER -> ""
\* which pool the extra sentence comes from
ExtraTier(rating) ==
    IF rating >= 4 THEN "positive" ELSE IF rating = 3 THEN "neutral" ELSE "negative"
\* make_review_text: four draws (opener, middle, closer, extra); every pool
\* of BASE_TEMPLATES and every extra pool has three phrases, and a phrase is
\* named by its pool and its index.  The text is the sequence of its pieces.
make_review_text(rng, rating, product_name, product_category, persona_info) ==
    LET opener == <<"openers", rating, UniformIndex(RngAfter(rng, 1), 3)>>
        middle == <<"middles", rating, UniformIndex(RngAfter(rng, 2), 3)>>
        closer == <<"closers", rating, UniformIndex(RngAfter(rng, 3), 3)>>
        extra == <<"extra", ExtraTier(rating), UniformIndex(RngAfter(rng, 4), 3)>>
        persona_line == <<persona_info.reviewer_name, persona_info.reviewer_persona,
                          persona_info.reviewer_location>>
        full == << <<opener, product_name>>,
                   <<PersonaPhrase(persona_info.persona_focus), middle>>,
                   <<"category", product_category>>,
                   extra, closer, persona_line >>
    IN  [text |-> safe_truncate(full, MAX_REVIEW_CHARS), rng |-> RngAfter(rng, 4)]

(***************************************************************************)
(* Review generator: the command line and the input file                   *)
(***************************************************************************)
\* str.lower() on the characters that occur in the paths below
LowerChar(c) ==
    CASE c = "A" -> "a" [] c = "C" -> "c" [] c = "S" -> "s" [] c = "V" -> "v"
      [] c = "P" -> "p" [] c = "R" -> "r" [] c = "Q" -> "q" [] c = "U" -> "u"
      [] c = "E" -> "e" [] c = "T" -> "t" [] c = "X" -> "x" [] c = "G" -> "g"
      [] c = "Z" -> "z"
      [] OTHER -> c
Lower(str) == [i \in 1..Len(str) |-> LowerChar(str[i])]
EndsWith(str, suffix) ==
    /\ Len(str) >= Len(suffix)
    /\ SubSeq(str, Len(str) - Len(suffix) + 1, Len(str)) = suffix
\* args.output.lower().endswith(".parquet") / (".csv")
OutIsParquet(output) == EndsWith(Lower(output), <<".", "p", "a", "r", "q", "u", "e", "t">>)
OutIsCsv(output) == EndsWith(Lower(output), <<".", "c", "s", "v">>)

\* output paths, as character sequences
OutputPaths ==
    { <<"a", ".", "c", "s", "v">>,
      <<"a", ".", "P", "a", "r", "q", "u", "e", "t">>,
      <<"a", ".", "t", "x", "t">>,
      <<"a", ".", "c", "s", "v", ".", "g", "z">> }

\* a --max-reviews-per-product beyond the length of the weight list
TooManyReviews == 6
MaxReviewsArgs == (0..MaxReviewsArg) \cup {TooManyReviews}

\* A product name is head, or head + "_" + more when underscore is TRUE;
\* head itself holds no underscore.  A category cell is a string or null.
ProductKinds == <<
    [name |-> [head |-> "Books", underscore |-> TRUE],
     category |-> "Books", category_is_null |-> FALSE],
    [name |-> [head |-> "Widget", underscore |-> TRUE],
     category |-> "Gadgets", category_is_null |-> FALSE],
    [name |-> [head |-> "Tools", underscore |-> FALSE],
     category |-> "", category_is_null |-> TRUE] >>

\* the sizes of the row groups of a file
FileShapes == UNION { [1..n -> 1..MaxGroupRows] : n \in 0..MaxRowGroups }
\* the file of that shape whose j-th product has id j and the kind at
\* position j + offset, taken round the list of kinds
FileOf(shape, offset) ==
    [g \in 1..Len(shape) |->
        [k \in 1..shape[g] |->
            LET j == SumTo(shape, g - 1) + k
                kind == ProductKinds[((j - 1 + offset) % Len(ProductKinds)) + 1]
            IN  [id |-> j, name |-> kind.name, category |-> kind.category,
                 category_is_null |-> kind.category_is_null]]]
InputFiles == { FileOf(sh, off) : sh \in FileShapes, off \in 0..(Len(ProductKinds) - 1) }

\* a chunking that yields the first chunk of a table and drops the rest
FirstChunkOnly(rows, max_chunksize) ==
    IF Len(rows) = 0 THEN <<>>
    ELSE <<SubSeq(rows, 1, Min(Len(rows), max_chunksize))>>
\* Table.to_batches(max_chunksize): consecutive chunks of at most that size
RECURSIVE to_batches(_, _)
to_batches(rows, max_chunksize) ==
    IF Len(rows) = 0 THEN <<>>
    ELSE IF Len(rows) <= max_chunksize THEN <<rows>>
    ELSE <<SubSeq(rows, 1, max_chunksize)>>
         \o to_batches(SubSeq(rows, max_chunksize + 1, Len(rows)), max_chunksize)

\* the columns iter_products_from_parquet reads
BatchColumns(category_col) ==
    {"id", "product_name"} \cup (IF category_col # "" THEN {category_col} ELSE {})

\* the category without the coercion of line 262
UncoercedCategory(p_row, category_column) ==
    IF category_column \in BatchColumns(category_column)
    THEN (IF ~p_row.category_is_null THEN p_row.category ELSE "General")
    ELSE (IF p_row.name.underscore THEN p_row.name.head ELSE "General")
\* lines 254-262: the category a product's reviews carry
ProductCategory(p_row, category_column) ==
    LET has_category == category_column \in BatchColumns(category_column)
        pname == p_row.name
        pcat == IF has_category
                THEN (IF ~p_row.category_is_null THEN p_row.category ELSE "General")
                ELSE (IF pname.underscore THEN pname.head ELSE "General")
    IN  IF pcat \in DOMAIN CATEGORY_BIASES THEN pcat ELSE "General"

(***************************************************************************)
(* The sampler on its own: any generator state, any maximum                *)
(***************************************************************************)
CountIdle ==
    /\ cs_pc = "idle" /\ cs_rng = 0 /\ cs_max = 0 /\ cs_result = <<>>
TruncateIdle ==
    tr_pc = "idle" /\ tr_text = <<>> /\ tr_once = <<>> /\ tr_twice = <<>>
AdjustIdle ==
    /\ ad_pc = "idle" /\ ad_base = <<>> /\ ad_bias = <<>> /\ ad_moved = <<>>
    /\ ad_result = <<>>

ReviewsIdle ==
    /\ rv_args = <<>> /\ rv_file = <<>> /\ rv_now = 0 /\ rv_pc = "idle"
    /\ rv_rng = 0 /\ rv_out_is_parquet = FALSE /\ rv_out_is_csv = FALSE
    /\ rv_parquet_writer = "None" /\ rv_csv_header_written = FALSE
    /\ rv_review_id_counter = 0 /\ rv_rows_out = <<>>
    /\ rv_rg = 0 /\ rv_pending = <<>> /\ rv_batch = <<>> /\ rv_i = 0
    /\ rv_product = <<>> /\ rv_left = 0
    /\ rv_sink = <<>> /\ rv_created = FALSE /\ rv_error = "none"
    /\ rv_draws = 0 /\ rv_batches_read = 0
    /\ rv_run = 0 /\ rv_prev = <<>>

ProductsIdle ==
    /\ pg_args = <<>> /\ pg_entropy = 0 /\ pg_pc = "idle" /\ pg_rng = 0
    /\ pg_ids = <<>> /\ pg_product_categories = <<>> /\ pg_product_names = <<>>
    /\ pg_written = <<>> /\ pg_error = "none" /\ pg_run = 0 /\ pg_prev = <<>>

InitCount ==
    /\ cs_pc = "call"
    /\ cs_rng \in 0..(RngRange - 1)
    /\ cs_max \in -1..MaxMaxReviews
    /\ cs_result = <<>>
    /\ AdjustIdle /\ ReviewsIdle /\ ProductsIdle /\ TruncateIdle

CallChooseNumReviews ==
    /\ cs_pc = "call"
    /\ cs_result' = choose_num_reviews(cs_rng, cs_max)
    /\ cs_pc' = "returned"
    /\ UNCHANGED <<cs_rng, cs_max, adVars, rvVars, pgVars, trVars>>

NextCount == CallChooseNumReviews
SpecCount == InitCount /\ [][NextCount]_vars

(***************************************************************************)
(* The adjuster on its own: any base distribution over a small             *)
(* denominator, any bias in tenths within [-1, 1]                          *)
(***************************************************************************)
BaseDistributions ==
    { [num |-> v, den |-> BaseDen] :
        v \in { w \in [1..5 -> 0..BaseDen] : SumSeq(w) = BaseDen } }
Biases == { [n |-> k, d |-> 10] : k \in -10..10 }
\* the biases of the table, as adjust_probs_for_category looks them up
TableBiases == { CategoryBias(c) : c \in DOMAIN CATEGORY_BIASES }

InitAdjust ==
    /\ ad_pc = "call"
    /\ \/ ad_base \in BaseDistributions /\ ad_bias \in Biases
       \/ ad_base = BASE_RATING_PROBS /\ ad_bias \in Biases \cup TableBiases
    /\ ad_moved = <<>>
    /\ ad_result = <<>>
    /\ CountIdle /\ ReviewsIdle /\ ProductsIdle /\ TruncateIdle

\* one call of the function body; ad_moved is probs as it stands before
\* line 130 (at the early return of line 106 when the bias is 0)
CallAdjust ==
    /\ ad_pc = "call"
    /\ ad_moved' = IF ad_bias.n = 0 THEN ad_base
                   ELSE Redistribute(ad_base, Shift(ad_bias))
    /\ ad_result' = AdjustForBias(ad_base, ad_bias)
    /\ ad_pc' = "returned"
    /\ UNCHANGED <<ad_base, ad_bias, csVars, rvVars, pgVars, trVars>>

NextAdjust == CallAdjust
SpecAdjust == InitAdjust /\ [][NextAdjust]_vars

(***************************************************************************)
(* safe_truncate called on its own                                         *)
(***************************************************************************)
\* A text is kept in the state as its runs of equal characters: <<>>,
\* <<[c, n]>>, or <<[c, n], [d, 1]>> with c # d, for the texts that are one
\* character repeated, with or without a different last character.
\* TextOf gives the characters of the runs, RunsOf the runs of such a text.
Chars == {"a", "b", "c"}
TextOf(runs) ==
    [i \in 1..SumSeq([r \in 1..Len(runs) |-> runs[r].n]) |->
        IF i <= runs[1].n THEN runs[1].c ELSE runs[2].c]
RunsOf(text) ==
    LET n == Len(text)
    IN  CHOOSE runs \in
            { IF n = 0 THEN <<>>
              ELSE IF text[n] = text[1] THEN <<[c |-> text[1], n |-> n]>>
              ELSE <<[c |-> text[1], n |-> n - 1], [c |-> text[n], n |-> 1]>> } :
            TextOf(runs) = text
\* the lengths of the texts: short ones, and ones about as long as the cap
TextLengths ==
    (1..MaxShortLen)
        \cup { MAX_REVIEW_CHARS + d : d \in (-MaxOver)..MaxOver }
Texts ==
    {<<>>}
        \cup { <<[c |-> c, n |-> n]>> : c \in Chars, n \in TextLengths }
        \cup { <<[c |-> cd[1], n |-> n - 1], [c |-> cd[2], n |-> 1]>> :
                 cd \in { x \in Chars \X Chars : x[1] # x[2] },
                 n \in TextLengths \ {1} }

InitTruncate ==
    /\ tr_pc = "call"
    /\ tr_text \in Texts
    /\ tr_once = <<>>
    /\ tr_twice = <<>>
    /\ CountIdle /\ AdjustIdle /\ ReviewsIdle /\ ProductsIdle

\* safe_truncate(text), with the default cap
CallTruncate ==
    /\ tr_pc = "call"
    /\ tr_once' = RunsOf(safe_truncate(TextOf(tr_text), MAX_REVIEW_CHARS))
    /\ tr_pc' = "returned"
    /\ UNCHANGED <<tr_text, tr_twice, csVars, adVars, rvVars, pgVars>>

\* safe_truncate applied to what the first call returned
CallTruncateAgain ==
    /\ tr_pc = "returned"
    /\ tr_twice' = RunsOf(safe_truncate(TextOf(tr_once), MAX_REVIEW_CHARS))
    /\ tr_pc' = "again"
    /\ UNCHANGED <<tr_text, tr_once, csVars, adVars, rvVars, pgVars>>

NextTruncate ==
    \/ CallTruncate
    \/ CallTruncateAgain
SpecTruncate == InitTruncate /\ [][NextTruncate]_vars

(***************************************************************************)
(* Review generator: main()                                                *)
(***************************************************************************)
\* a counter that is never advanced
StuckReviewId(counter) == counter
\* review_id_counter += 1
NextReviewId(counter) == counter + 1
\* a header with every flush
AlwaysHeader(csv_header_written) == TRUE
\* header=not csv_header_written
WritesHeader(csv_header_written) == ~csv_header_written
\* an extension check that lets every path through
AnyOutput(out_is_parquet, out_is_csv) == TRUE
\* `if not (out_is_parquet or out_is_csv): raise ValueError`
OutputRecognised(out_is_parquet, out_is_csv) == out_is_parquet \/ out_is_csv

HeaderLine == [kind |-> "header"]
RowLines(rows) == [i \in 1..Len(rows) |-> [kind |-> "row", row |-> rows[i]]]
\* the review rows among what was written, in order
RECURSIVE SinkRows(_)
SinkRows(sink) ==
    IF sink = <<>> THEN <<>>
    ELSE (IF Head(sink).kind = "row" THEN <<Head(sink).row>> ELSE <<>>)
         \o SinkRows(Tail(sink))

\* the state at the entry of main(), before line 242
RunEntry ==
    /\ rv_pc' = "start"
    /\ rv_rng' = 0 /\ rv_out_is_parquet' = FALSE /\ rv_out_is_csv' = FALSE
    /\ rv_parquet_writer' = "None" /\ rv_csv_header_written' = FALSE
    /\ rv_review_id_counter' = 0 /\ rv_rows_out' = <<>>
    /\ rv_rg' = 0 /\ rv_pending' = <<>> /\ rv_batch' = <<>> /\ rv_i' = 0
    /\ rv_product' = <<>> /\ rv_left' = 0
    /\ rv_sink' = <<>> /\ rv_created' = FALSE /\ rv_error' = "none"
    /\ rv_draws' = 0 /\ rv_batches_read' = 0

InitReviews ==
    /\ rv_args \in [output : OutputPaths,
                    max_reviews_per_product : MaxReviewsArgs,
                    batch_size : 1..MaxBatchSize,
                    seed : 0..MaxSeed,
                    category_column : {"product_category", ""},
                    years_back : {DEFAULT_YEARS_BACK}]
    /\ rv_file \in InputFiles
    /\ rv_now \in 0..MaxClock
    /\ rv_pc = "start"
    /\ rv_rng = 0 /\ rv_out_is_parquet = FALSE /\ rv_out_is_csv = FALSE
    /\ rv_parquet_writer = "None" /\ rv_csv_header_written = FALSE
    /\ rv_review_id_counter = 0 /\ rv_rows_out = <<>>
    /\ rv_rg = 0 /\ rv_pending = <<>> /\ rv_batch = <<>> /\ rv_i = 0
    /\ rv_product = <<>> /\ rv_left = 0
    /\ rv_sink = <<>> /\ rv_created = FALSE /\ rv_error = "none"
    /\ rv_draws = 0 /\ rv_batches_read = 0
    /\ rv_run = 1 /\ rv_prev = <<>>
    /\ CountIdle /\ AdjustIdle /\ ProductsIdle /\ TruncateIdle

\* lines 242-250: seed the generator, look at the output's extension, and
\* either raise or set up the cross-batch state
Startup ==
    /\ rv_pc = "start"
    /\ rv_rng' = default_rng(rv_args.seed)
    /\ rv_out_is_parquet' = OutIsParquet(rv_args.output)
    /\ rv_out_is_csv' = OutIsCsv(rv_args.output)
    /\ IF OutputRecognised(rv_out_is_parquet', rv_out_is_csv')
       THEN /\ rv_parquet_writer' = "None"
            /\ rv_csv_header_written' = FALSE
            /\ rv_review_id_counter' = 1
            /\ rv_rg' = 1
            /\ rv_pc' = "iter"
            /\ rv_error' = "none"
       ELSE /\ rv_pc' = "failed"
            /\ rv_error' = "ValueError"
            /\ UNCHANGED <<rv_parquet_writer, rv_csv_header_written,
                           rv_review_id_counter, rv_rg>>
    /\ UNCHANGED <<rvInput, rv_now, rv_rows_out, rv_pending, rv_batch, rv_i,
                   rv_product, rv_left, rv_sink, rv_created, rv_draws,
                   rv_batches_read, rvRuns, csVars, adVars, pgVars, trVars>>

\* the batches still to come once the iterator has moved on to the next
\* batch: those left of the current row group, or those of the next one
BatchesAhead ==
    IF rv_pending # <<>> THEN rv_pending
    ELSE IF rv_rg <= Len(rv_file)
         THEN to_batches(rv_file[rv_rg], rv_args.batch_size)
         ELSE <<>>

\* line 252 with lines 217-224 and 253-254: the iterator yields the next
\* batch, reading the next row group when the current one is used up
NextBatch ==
    /\ rv_pc = "iter"
    /\ BatchesAhead # <<>>
    /\ rv_batch' = Head(BatchesAhead)
    /\ rv_pending' = Tail(BatchesAhead)
    /\ rv_rg' = IF rv_pending # <<>> THEN rv_rg ELSE rv_rg + 1
    /\ rv_rows_out' = <<>>
    /\ rv_i' = 1
    /\ rv_batches_read' = rv_batches_read + 1
    /\ rv_pc' = "row"
    /\ UNCHANGED <<rvInput, rv_now, rv_rng, rv_out_is_parquet, rv_out_is_csv,
                   rv_parquet_writer, rv_csv_header_written, rv_review_id_counter,
                   rv_product, rv_left, rv_sink, rv_created, rv_error, rv_draws,
                   rvRuns, csVars, adVars, pgVars, trVars>>

\* line 220: reading a row group fails; nothing catches it
ReadFails ==
    /\ rv_pc = "iter"
    /\ rv_pending = <<>>
    /\ rv_rg <= Len(rv_file)
    /\ rv_pc' = "failed"
    /\ rv_error' = "ReadError"
    /\ UNCHANGED <<rvInput, rv_now, rvLocals, rvIter, rv_sink, rv_created,
                   rv_draws, rv_batches_read, rvRuns, csVars, adVars, pgVars,
                   trVars>>

\* lines 255-263: the next row of the batch: its id, name and category, and
\* the number of reviews to write for it
ProductRow ==
    /\ rv_pc = "row"
    /\ rv_i <= Len(rv_batch)
    /\ LET p_row == rv_batch[rv_i]
           pcat == ProductCategory(p_row, rv_args.category_column)
           chosen == choose_num_reviews(rv_rng, rv_args.max_reviews_per_product)
       IN  /\ rv_product' = [pid |-> p_row.id, pname |-> p_row.name, pcat |-> pcat]
           /\ rv_rng' = chosen.rng
           /\ rv_draws' = rv_draws + (IF chosen.rng = rv_rng THEN 0 ELSE 1)
           /\ IF ~chosen.ok
              THEN /\ rv_pc' = "failed"
                   /\ rv_error' = "ValueError"
                   /\ UNCHANGED <<rv_left, rv_i>>
              ELSE /\ rv_left' = chosen.n
                   /\ rv_error' = "none"
                   /\ rv_pc' = IF chosen.n > 0 THEN "review" ELSE "row"
                   /\ rv_i' = IF chosen.n > 0 THEN rv_i ELSE rv_i + 1
    /\ UNCHANGED <<rvInput, rv_now, rv_out_is_parquet, rv_out_is_csv,
                   rv_parquet_writer, rv_csv_header_written, rv_review_id_counter,
                   rv_rows_out, rv_rg, rv_pending, rv_batch, rv_sink, rv_created,
                   rv_batches_read, rvRuns, csVars, adVars, pgVars, trVars>>

\* lines 265-282: one review of the current product
GenReview ==
    /\ rv_pc = "review"
    /\ rv_left > 0
    /\ LET persona == sample_persona(rv_rng)
           rated == choose_rating_for_category(persona.rng, rv_product.pcat)
           texted == make_review_text(rated.rng, rated.rating, rv_product.pname,
                                      rv_product.pcat, persona.info)
           dated == sample_review_date(texted.rng, rv_now, rv_args.years_back)
           row == [review_id |-> rv_review_id_counter,
                   product_id |-> rv_product.pid,
                   product_name |-> rv_product.pname,
                   product_category |-> rv_product.pcat,
                   rating |-> rated.rating,
                   review_text |-> texted.text,
                   reviewer_name |-> persona.info.reviewer_name,
                   reviewer_persona |-> persona.info.reviewer_persona,
                   reviewer_age |-> persona.info.reviewer_age,
                   reviewer_location |-> persona.info.reviewer_location,
                   review_date |-> dated.review_date]
       IN  /\ rv_rows_out' = Append(rv_rows_out, row)
           /\ rv_rng' = dated.rng
           /\ rv_draws' = rv_draws + 11
    /\ rv_review_id_counter' = NextReviewId(rv_review_id_counter)
    /\ rv_left' = rv_left - 1
    /\ rv_pc' = IF rv_left' > 0 THEN "review" ELSE "row"
    /\ rv_i' = IF rv_left' > 0 THEN rv_i ELSE rv_i + 1
    /\ UNCHANGED <<rvInput, rv_now, rv_out_is_parquet, rv_out_is_csv,
                   rv_parquet_writer, rv_csv_header_written, rv_rg, rv_pending,
                   rv_batch, rv_product, rv_sink, rv_created, rv_error,
                   rv_batches_read, rvRuns, csVars, adVars, pgVars, trVars>>

\* lines 284-285: a batch that gave no review is skipped
SkipEmptyBatch ==
    /\ rv_pc = "row"
    /\ rv_i > Len(rv_batch)
    /\ rv_rows_out = <<>>
    /\ rv_pc' = "iter"
    /\ UNCHANGED <<rvInput, rv_now, rvLocals, rvIter, rvOut, rvRuns, csVars, adVars, pgVars,
                   trVars>>

\* lines 287-290: the batch's rows are appended to the delimited-text file,
\* with the header line first unless one was written before
FlushCsv ==
    /\ rv_pc = "row"
    /\ rv_i > Len(rv_batch)
    /\ rv_rows_out # <<>>
    /\ rv_out_is_csv
    /\ rv_sink' = rv_sink
                  \o (IF WritesHeader(rv_csv_header_written) THEN <<HeaderLine>> ELSE <<>>)
                  \o RowLines(rv_rows_out)
    /\ rv_created' = TRUE
    /\ rv_csv_header_written' = TRUE
    /\ rv_pc' = "iter"
    /\ UNCHANGED <<rvInput, rv_now, rv_rng, rv_out_is_parquet, rv_out_is_csv,
                   rv_parquet_writer, rv_review_id_counter, rv_rows_out, rvIter,
                   rv_error, rv_draws, rv_batches_read, rvRuns, csVars, adVars, pgVars,
                   trVars>>

\* lines 291-297: the batch's rows go to the columnar writer, which is
\* opened first when there is none yet
FlushParquet ==
    /\ rv_pc = "row"
    /\ rv_i > Len(rv_batch)
    /\ rv_rows_out # <<>>
    /\ ~rv_out_is_csv
    /\ rv_parquet_writer' = "open"
    /\ rv_created' = TRUE
    /\ rv_sink' = rv_sink \o RowLines(rv_rows_out)
    /\ rv_pc' = "iter"
    /\ UNCHANGED <<rvInput, rv_now, rv_rng, rv_out_is_parquet, rv_out_is_csv,
                   rv_csv_header_written, rv_review_id_counter, rv_rows_out,
                   rvIter, rv_error, rv_draws, rv_batches_read, rvRuns,
                   csVars, adVars, pgVars, trVars>>

\* lines 289 / 296-297: the write fails; nothing catches it.  A writer that
\* was open stays as it was.
WriteFails ==
    /\ rv_pc = "row"
    /\ rv_i > Len(rv_batch)
    /\ rv_rows_out # <<>>
    /\ rv_pc' = "failed"
    /\ rv_error' = "WriteError"
    /\ UNCHANGED <<rvInput, rv_now, rvLocals, rvIter, rv_sink, rv_created,
                   rv_draws, rv_batches_read, rvRuns, csVars, adVars, pgVars,
                   trVars>>

\* lines 299-302: the iterator is exhausted; the writer, if any, is closed
Finish ==
    /\ rv_pc = "iter"
    /\ BatchesAhead = <<>>
    /\ rv_parquet_writer' = IF rv_parquet_writer # "None" THEN "closed" ELSE "None"
    /\ rv_pc' = "done"
    /\ UNCHANGED <<rvInput, rv_now, rv_rng, rv_out_is_parquet, rv_out_is_csv,
                   rv_csv_header_written, rv_review_id_counter, rv_rows_out,
                   rvIter, rvOut, rvRuns, csVars, adVars, pgVars, trVars>>

\* datetime.now(): the clock moves on between two reviews
Tick ==
    /\ rv_pc = "review"
    /\ rv_now < MaxClock
    /\ rv_now' = rv_now + 1
    /\ UNCHANGED <<rvInput, rv_pc, rvLocals, rvIter, rvOut, rvRuns, csVars, adVars, pgVars,
                   trVars>>

\* the program is started once more with the same command line on the
\* same input file, at whatever time
Rerun ==
    /\ rv_pc = "done"
    /\ rv_run = 1
    /\ rv_run' = 2
    /\ rv_prev' = SinkRows(rv_sink)
    /\ rv_now' \in 0..MaxClock
    /\ RunEntry
    /\ UNCHANGED <<rvInput, csVars, adVars, pgVars, trVars>>

NextReviews ==
    \/ Startup
    \/ NextBatch
    \/ ReadFails
    \/ ProductRow
    \/ GenReview
    \/ SkipEmptyBatch
    \/ FlushCsv
    \/ FlushParquet
    \/ WriteFails
    \/ Finish
    \/ Tick
SpecReviews == InitReviews /\ [][NextReviews]_vars

NextRerun == NextReviews \/ Rerun
SpecRerun == InitReviews /\ [][NextRerun]_vars

(***************************************************************************)
(* Product generator                                                       *)
(***************************************************************************)
\* the categories in dictionary order, each with the number of base titles
\* listed for it; a base title is named by its category and its index
CATEGORY_PRODUCTS ==
    << [category |-> "Electronics", titles |-> 12],
       [category |-> "Computers & Accessories", titles |-> 10],
       [category |-> "Smart Home", titles |-> 10],
       [category |-> "Home & Kitchen", titles |-> 10],
       [category |-> "Furniture", titles |-> 8],
       [category |-> "Tools & Home Improvement", titles |-> 9],
       [category |-> "Sports & Outdoors", titles |-> 10],
       [category |-> "Clothing", titles |-> 8],
       [category |-> "Shoes", titles |-> 6],
       [category |-> "Beauty & Personal Care", titles |-> 8],
       [category |-> "Health & Household", titles |-> 8],
       [category |-> "Baby", titles |-> 6],
       [category |-> "Pet Supplies", titles |-> 7],
       [category |-> "Toys & Games", titles |-> 7],
       [category |-> "Books", titles |-> 6],
       [category |-> "Office Products", titles |-> 7],
       [category |-> "Video Games", titles |-> 5],
       [category |-> "Automotive", titles |-> 6],
       [category |-> "Industrial & Scientific", titles |-> 6],
       [category |-> "Arts, Crafts & Sewing", titles |-> 6] >>
\* the title enhancers; a leading blank of the source is part of the joining
BRANDS ==
    << "Anker", "Samsung", "Sony", "Logitech",
       "Amazon Basics", "Apple", "HP", "Dell",
       "ASUS", "Lenovo", "Bose", "Philips",
       "Nike", "Adidas", "Under Armour", "Instant Pot",
       "Shark", "Dyson", "Fitbit", "Ring",
       "TP-Link", "Roku", "JBL", "Belkin",
       "Xiaomi", "Spigen", "Hydro Flask", "Brita",
       "KitchenAid", "LEGO" >>
QUALIFIERS ==
    << "New", "2026 Model", "Upgraded", "Premium",
       "Ultra", "Pro", "Compact", "Lightweight",
       "Heavy Duty", "High Performance", "Fast Charging", "Waterproof",
       "Wireless", "Rechargeable" >>
BUNDLE_HINTS ==
    << "", "", "", "(2 Pack)",
       "(3 Pack)", "(4 Pack)", "Bundle" >>
COLORS ==
    << "", "", "", "- Black",
       "- White", "- Blue", "- Gray", "- Red" >>
SIZES ==
    << "", "", "", "",
       "Small", "Medium", "Large", "XL",
       "1TB", "2TB", "64GB", "128GB",
       "20000mAh" >>

\* the number of categories main() insists on
EXPECTED_CATEGORIES == 20
\* a round-robin that starts one place late
CatIdxFromId(id) == id % Len(CATEGORY_PRODUCTS)
\* cat_idx = (ids - 1) % len(categories), 0-based
CatIdx(id) == (id - 1) % Len(CATEGORY_PRODUCTS)
\* a generator seeded from the system's entropy, as default_rng() without
\* a seed would be
SeedFromEntropy(args, entropy) == default_rng(entropy)
\* rng = np.random.default_rng(args.seed)
SeededGenerator(args, entropy) == default_rng(args.seed)

\* rng.random() < 0.75 for the uniform draw raw / RngRange
BelowThreeQuarters(raw) == 4 * raw < 3 * RngRange
\* make_amazon_title: brand, the coin for the qualifier, the qualifier when
\* the coin says so, size, colour, bundle.  The title is given by its
\* pieces; an empty piece leaves no trace in the joined, whitespace-
\* normalised string.
make_amazon_title(rng, base) ==
    LET brand == Pick(RngAfter(rng, 1), BRANDS)
        coin == RngAfter(rng, 2)
        q == IF BelowThreeQuarters(coin) THEN 1 ELSE 0
        qualifier == IF q = 1 THEN Pick(RngAfter(rng, 3), QUALIFIERS) ELSE ""
        size == Pick(RngAfter(rng, 3 + q), SIZES)
        color == Pick(RngAfter(rng, 4 + q), COLORS)
        bundle == Pick(RngAfter(rng, 5 + q), BUNDLE_HINTS)
    IN  [title |-> [brand |-> brand, qualifier |-> qualifier, base |-> base,
                    size |-> size, color |-> color, bundle |-> bundle],
         rng |-> RngAfter(rng, 5 + q)]

\* rng.uniform(low, high) rounded to the unit the bounds are given in
UniformRounded(raw, low, high) ==
    low + (2 * raw * (high - low) + RngRange) \div (2 * RngRange)
\* the k-th entries of the three numeric columns of lines 326-328, drawn
\* column after column from the generator state left by the title loop
PriceCents(rng, rows, k) == UniformRounded(RngAfter(rng, k), 499, 99999)
InventoryCount(rng, rows, k) == UniformIndex(RngAfter(rng, rows + k), 250000)
MarginE4(rng, rows, k) == UniformRounded(RngAfter(rng, 2 * rows + k), 500, 7500)

PgEntry ==
    /\ pg_pc' = "start" /\ pg_rng' = 0 /\ pg_ids' = <<>>
    /\ pg_product_categories' = <<>> /\ pg_product_names' = <<>>
    /\ pg_written' = <<>> /\ pg_error' = "none"

InitProducts ==
    /\ pg_args \in [rows : 0..MaxRows, seed : 0..MaxSeed]
    /\ pg_entropy \in 0..MaxSeed
    /\ pg_pc = "start" /\ pg_rng = 0 /\ pg_ids = <<>>
    /\ pg_product_categories = <<>> /\ pg_product_names = <<>>
    /\ pg_written = <<>> /\ pg_error = "none"
    /\ pg_run = 1 /\ pg_prev = <<>>
    /\ CountIdle /\ AdjustIdle /\ ReviewsIdle /\ TruncateIdle

\* lines 302-313: the generator is seeded, the category list is checked,
\* the ids 1..rows and their categories are laid out
PgSetup ==
    /\ pg_pc = "start"
    /\ pg_rng' = SeededGenerator(pg_args, pg_entropy)
    /\ IF Len(CATEGORY_PRODUCTS) # EXPECTED_CATEGORIES
       THEN /\ pg_pc' = "failed"
            /\ pg_error' = "ValueError"
            /\ UNCHANGED <<pg_ids, pg_product_categories>>
       ELSE /\ pg_ids' = [i \in 1..pg_args.rows |-> i]
            /\ pg_product_categories' =
                  [i \in 1..pg_args.rows |->
                      CATEGORY_PRODUCTS[CatIdx(pg_ids'[i]) + 1].category]
            /\ pg_pc' = "names"
            /\ pg_error' = "none"
    /\ UNCHANGED <<pg_args, pg_entropy, pg_product_names, pg_written, pg_run,
                   pg_prev, csVars, adVars, rvVars, trVars>>

\* the number of base titles of a category
TitlesOf(cat) ==
    (CHOOSE c \in { CATEGORY_PRODUCTS[i] : i \in 1..Len(CATEGORY_PRODUCTS) } :
        c.category = cat).titles

\* lines 316-318: the title of the next row
PgName ==
    /\ pg_pc = "names"
    /\ Len(pg_product_names) < Len(pg_product_categories)
    /\ LET cat == pg_product_categories[Len(pg_product_names) + 1]
           raw == RngNext(pg_rng)
           base == <<cat, UniformIndex(raw, TitlesOf(cat))>>
           made == make_amazon_title(raw, base)
       IN  /\ pg_product_names' = Append(pg_product_names, made.title)
           /\ pg_rng' = made.rng
    /\ UNCHANGED <<pg_args, pg_entropy, pg_pc, pg_ids, pg_product_categories,
                   pg_written, pg_error, pg_run, pg_prev, csVars, adVars, rvVars,
                   trVars>>

\* lines 321-338: the three numeric columns are drawn, the frame is put
\* together and written to the output file in one operation
PgWrite ==
    /\ pg_pc = "names"
    /\ Len(pg_product_names) = Len(pg_product_categories)
    /\ pg_written' =
          [k \in 1..Len(pg_ids) |->
              [id |-> pg_ids[k],
               product_category |-> pg_product_categories[k],
               product_name |-> pg_product_names[k],
               price_usd |-> PriceCents(pg_rng, pg_args.rows, k),
               inventory_count |-> InventoryCount(pg_rng, pg_args.rows, k),
               margin |-> MarginE4(pg_rng, pg_args.rows, k)]]
    /\ pg_rng' = RngAfter(pg_rng, 3 * pg_args.rows)
    /\ pg_pc' = "done"
    /\ UNCHANGED <<pg_args, pg_entropy, pg_ids, pg_product_categories,
                   pg_product_names, pg_error, pg_run, pg_prev,
                   csVars, adVars, rvVars, trVars>>

\* the program is started once more with the same rows and seed, as an
\* independent process: whatever the system's entropy is by then
PgRerun ==
    /\ pg_pc = "done"
    /\ pg_run = 1
    /\ pg_run' = 2
    /\ pg_prev' = pg_written
    /\ pg_entropy' \in 0..MaxSeed
    /\ PgEntry
    /\ UNCHANGED <<pg_args, csVars, adVars, rvVars, trVars>>

NextProducts ==
    \/ PgSetup
    \/ PgName
    \/ PgWrite
    \/ PgRerun
SpecProducts == InitProducts /\ [][NextProducts]_vars

(***************************************************************************)
(* Claims                                                                  *)
(***************************************************************************)

\* C2: for every maximum M >= 0, also M > 5, choose_num_reviews returns
\* (it never raises) and the count it returns lies in 0..M.
C2_CountInRangeNeverFails ==
    (cs_pc = "returned" /\ cs_max >= 0) =>
        (cs_result.ok /\ cs_result.n \in 0..cs_max)

ValidDistribution(probs) ==
    /\ \A i \in 1..Len(probs.num) : probs.num[i] > 0
    /\ probs.den > 0
    /\ SumSeq(probs.num) = probs.den

\* C3 as stated: for every bias in [-1, 1], bias 0 included, and every base
\* distribution summing to 1, every entry of the adjusted vector is
\* strictly positive and the entries sum to 1.
C3_AlwaysValidDistribution ==
    ad_pc = "returned" => ValidDistribution(ad_result)

\* C3 amended: for every nonzero bias the adjusted vector has strictly
\* positive entries that sum to 1; for bias 0 the base vector is returned
\* unchanged (it sums to 1 and keeps its zero entries).
C3_ValidUnlessNeutral ==
    ad_pc = "returned" =>
        IF ad_bias.n = 0
        THEN ad_result = ad_base /\ SumSeq(ad_result.num) = ad_result.den
        ELSE ValidDistribution(ad_result)

\* C3 witness: a nonzero bias met a base with an empty bucket, and the
\* bucket came out positive.
C3_Witness ==
    /\ ad_pc = "returned"
    /\ ad_bias.n # 0
    /\ \E i \in 1..5 : ad_base.num[i] = 0 /\ ad_result.num[i] > 0

\* the rows of the run so far in output order: those written, then those
\* of the batch in progress
Emitted ==
    SinkRows(rv_sink) \o (IF rv_pc \in {"row", "review"} THEN rv_rows_out ELSE <<>>)
\* the products of the input file in file order
RECURSIVE Flatten(_)
Flatten(groups) == IF groups = <<>> THEN <<>> ELSE Head(groups) \o Flatten(Tail(groups))
FileRows == Flatten(rv_file)
ProductIdsOf(rows) == { rows[i].product_id : i \in 1..Len(rows) }
HeaderCount == Cardinality({ i \in 1..Len(rv_sink) : rv_sink[i].kind = "header" })

\* C1: the review ids of the emitted rows, in output order, are 1, 2, 3, ...
\* (so strictly increasing and distinct), across batch boundaries too.
C1_ReviewIdsDense ==
    \A i \in 1..Len(Emitted) : Emitted[i].review_id = i

\* C1 witness: a finished run with batches of one product whose output holds
\* at least three rows coming from at least two batches.
C1_Witness ==
    /\ rv_pc = "done"
    /\ rv_args.batch_size = 1
    /\ Len(SinkRows(rv_sink)) >= 3
    /\ Cardinality(ProductIdsOf(SinkRows(rv_sink))) >= 2

\* the category the claim expects for a product of the input file
ExpectedCategory(p) ==
    LET given == IF rv_args.category_column = "product_category"
                 THEN (IF p.category_is_null THEN "<null>" ELSE p.category)
                 ELSE (IF p.name.underscore THEN p.name.head ELSE "<none>")
    IN  IF given \in DOMAIN CATEGORY_BIASES THEN given ELSE "General"

\* C4: every emitted row carries a category that is a key of the bias
\* table: the product's own category when that is a key, "General" when the
\* provided, derived or null category is not.
C4_CategoryInBiasTable ==
    \A i \in 1..Len(Emitted) :
        /\ Emitted[i].product_category \in DOMAIN CATEGORY_BIASES
        /\ Emitted[i].product_category = ExpectedCategory(FileRows[Emitted[i].product_id])

\* C4 witness: a finished run wrote a row for a product with the unknown
\* category "Gadgets" and a row for a product of category "Books".
C4_Witness ==
    /\ rv_pc = "done"
    /\ rv_args.category_column = "product_category"
    /\ \E i, j \in 1..Len(SinkRows(rv_sink)) :
         /\ FileRows[SinkRows(rv_sink)[i].product_id].category = "Gadgets"
         /\ SinkRows(rv_sink)[i].product_category = "General"
         /\ FileRows[SinkRows(rv_sink)[j].product_id].category = "Books"
         /\ SinkRows(rv_sink)[j].product_category = "Books"

RecognisedOutput == OutIsParquet(rv_args.output) \/ OutIsCsv(rv_args.output)

\* the batches the iterator has yet to yield
RECURSIVE BatchesFrom(_)
BatchesFrom(g) ==
    IF g > Len(rv_file) THEN 0
    ELSE Len(to_batches(rv_file[g], rv_args.batch_size)) + BatchesFrom(g + 1)
\* a bound on the steps a run without reviews has left: it is 0 exactly
\* when the run is over, and every step of such a run lowers it
StepsLeft ==
    CASE rv_pc = "start" -> 2 + (2 * MaxBatchSize + 2) * BatchesFrom(1)
      [] rv_pc = "iter" ->
            1 + (2 * MaxBatchSize + 2) * (Len(rv_pending) + BatchesFrom(rv_rg))
      [] rv_pc = "row" ->
            2 + 2 * (Len(rv_batch) + 1 - rv_i)
              + (2 * MaxBatchSize + 2) * (Len(rv_pending) + BatchesFrom(rv_rg))
      [] OTHER -> 0

\* C6: with max-reviews-per-product = 0 (and an output path the program
\* accepts) the generator is never drawn from, no row is produced, nothing
\* is written or created, and the run ends successfully: it never stops
\* before its end, every step brings the end nearer, and the only way to
\* end other than in "done" is a failed read of the input.
C6_ZeroMaxNothingWritten ==
    /\ [](rv_args.max_reviews_per_product = 0 /\ RecognisedOutput =>
            /\ rv_draws = 0
            /\ rv_rows_out = <<>>
            /\ rv_sink = <<>>
            /\ ~rv_created
            /\ rv_pc \in {"start", "iter", "row", "done", "failed"}
            /\ rv_pc = "failed" => rv_error = "ReadError"
            /\ rv_pc \notin {"done", "failed"} => ENABLED (NextBatch \/ ProductRow \/ SkipEmptyBatch \/ Finish \/ Startup))
    /\ [][rv_args.max_reviews_per_product = 0 /\ RecognisedOutput =>
            /\ StepsLeft' < StepsLeft
            /\ StepsLeft' >= 0]_vars

\* C6 witness: a run with maximum 0 finished after reading at least two
\* batches.
C6_Witness ==
    /\ rv_pc = "done"
    /\ rv_args.max_reviews_per_product = 0
    /\ rv_batches_read >= 2
    /\ rv_sink = <<>>

\* C8: a rerun with the same seed, input file and parameters writes the same
\* rows as the run before, review_date included, whatever the start times.
C8_RerunSameRows ==
    (rv_run = 2 /\ rv_pc = "done") => SinkRows(rv_sink) = rv_prev

\* C9 as stated: every finished run with delimited-text output has written
\* the header exactly once, also a run in which no batch gave a review.
C9_HeaderExactlyOnce ==
    (rv_pc = "done" /\ rv_out_is_csv) => HeaderCount = 1

\* C9 amended: with delimited-text output the header is written at most
\* once per run; once anything is written the header is its first line and
\* is written exactly once, whatever the number of batches; a run in which
\* no batch gives a review writes no header.
C9_HeaderOnceBeforeRows ==
    rv_out_is_csv =>
        /\ HeaderCount <= 1
        /\ rv_csv_header_written <=> (rv_sink # <<>>)
        /\ rv_sink # <<>> =>
              /\ rv_sink[1].kind = "header"
              /\ HeaderCount = 1
              /\ Len(SinkRows(rv_sink)) >= 1
        /\ (rv_pc = "done" /\ SinkRows(rv_sink) = <<>>) => HeaderCount = 0

\* C9 witness: a finished delimited-text run with batches of one product
\* in which two batches were flushed and one batch gave no review.
C9_Witness ==
    /\ rv_pc = "done"
    /\ rv_out_is_csv
    /\ rv_args.batch_size = 1
    /\ Cardinality(ProductIdsOf(SinkRows(rv_sink))) >= 2
    /\ rv_batches_read > Cardinality(ProductIdsOf(SinkRows(rv_sink)))
    /\ HeaderCount = 1

\* C10: with an output path that ends with neither .parquet nor .csv the
\* run only ever raises at startup: no batch is read, no review generated,
\* nothing written to or created at the output path.
C10_UnrecognisedOutputFailsAtStartup ==
    ~RecognisedOutput =>
        /\ rv_pc \in {"start", "failed"}
        /\ rv_pc = "failed" => rv_error = "ValueError"
        /\ rv_batches_read = 0
        /\ rv_draws = 0
        /\ rv_rows_out = <<>>
        /\ rv_sink = <<>>
        /\ ~rv_created
        /\ rv_parquet_writer = "None"

\* C10 witness: a run on a file with products and reviews to write, whose
\* output path ends with .csv.gz, has failed.
C10_Witness ==
    /\ rv_pc = "failed"
    /\ rv_error = "ValueError"
    /\ rv_args.output = <<"a", ".", "c", "s", "v", ".", "g", "z">>
    /\ rv_args.max_reviews_per_product = 2
    /\ Len(rv_file) >= 1

\* C5: for every row count N > 0 the file written holds exactly N rows, the
\* i-th row has id i (so the ids are 1..N in ascending order), and the row
\* with id i has the category at index (i-1) mod 20 of the category list.
C5_IdsDenseCategoriesRoundRobin ==
    (pg_pc = "done" /\ pg_args.rows > 0) =>
        /\ Len(pg_written) = pg_args.rows
        /\ Len(CATEGORY_PRODUCTS) = 20
        /\ \A i \in 1..Len(pg_written) :
              /\ pg_written[i].id = i
              /\ pg_written[i].product_category
                    = CATEGORY_PRODUCTS[((i - 1) % 20) + 1].category

\* C5 witness: a file of at least 21 rows was written, and rows 1 and 21
\* both carry the first category.
C5_Witness ==
    /\ pg_pc = "done"
    /\ pg_args.rows >= 21
    /\ pg_written[1].product_category = "Electronics"
    /\ pg_written[21].product_category = "Electronics"
    /\ pg_written[20].product_category = "Arts, Crafts & Sewing"

\* C7: a second, independent run with the same row count and seed writes
\* the same file: the same ids, categories, names, prices, inventory counts
\* and margins in the same order.
C7_SameSeedSameFile ==
    (pg_run = 2 /\ pg_pc = "done" /\ pg_args.rows > 0) => pg_written = pg_prev

\* C7 witness: a second run of several rows finished under another entropy
\* than the first could have had, with a file of that many rows that holds
\* two rows with different names.
C7_Witness ==
    /\ pg_run = 2
    /\ pg_pc = "done"
    /\ pg_args.rows >= 3
    /\ pg_entropy # pg_args.seed
    /\ Len(pg_written) = pg_args.rows
    /\ pg_written[1].product_name.brand # pg_written[2].product_name.brand

\* the rational n/d in lowest terms
Frac(n, d) == Reduce([n |-> n, d |-> d])
\* sh is bias * 0.5 clamped to [-0.15, 0.15]
IsClampedHalf(sh, bias) ==
    IF 100 * bias.n > 30 * bias.d THEN 100 * sh.n = 15 * sh.d
    ELSE IF 100 * bias.n < -30 * bias.d THEN 100 * sh.n = -15 * sh.d
    ELSE 2 * bias.d * sh.n = bias.n * sh.d
\* what bucket i of `after` holds more than bucket i of `before`
Gain(before, after, i) ==
    Frac(after.num[i] * before.den - before.num[i] * after.den,
         before.den * after.den)

\* C11: for a nonzero bias, with shift = bias * 0.5 clamped to
\* [-0.15, 0.15], the vector as it stands before the floor and the
\* renormalisation differs from the base as follows: each bucket of the
\* source group (ratings 1, 2 when shift > 0, ratings 4, 5 when shift < 0)
\* has lost |shift| times its own mass, so the group has lost |shift| times
\* its mass; each bucket of the target group has gained its share of that
\* total, in proportion to the target buckets, or half of it each when both
\* are 0; rating 3 is unchanged; the entries still sum to 1.  The result
\* of the call is that vector floored and renormalised.
C11_MassMovesBetweenGroups ==
    (ad_pc = "returned" /\ ad_bias.n # 0) =>
        LET sh == Shift(ad_bias)
            a == Abs(sh.n)
            b == sh.d
            src == IF sh.n > 0 THEN {1, 2} ELSE {4, 5}
            tgt == IF sh.n > 0 THEN {4, 5} ELSE {1, 2}
            p == ad_base.num
            D == ad_base.den
            S == SumSeq([i \in 1..5 |-> IF i \in src THEN p[i] ELSE 0])
            T == SumSeq([i \in 1..5 |-> IF i \in tgt THEN p[i] ELSE 0])
            lost == SumSeq([i \in 1..5 |-> IF i \in src THEN ad_moved.num[i] ELSE 0])
            got == SumSeq([i \in 1..5 |-> IF i \in tgt THEN ad_moved.num[i] ELSE 0])
        IN  /\ IsClampedHalf(sh, ad_bias)
            /\ \A i \in src :
                  Gain(ad_moved, ad_base, i) = Frac(a * p[i], b * D)
            /\ \A i \in tgt :
                  Gain(ad_base, ad_moved, i) =
                      IF T = 0 THEN Frac(a * S, 2 * b * D)
                      ELSE Frac(a * S * p[i], b * D * T)
            /\ Frac(S * ad_moved.den - lost * D, D * ad_moved.den)
                  = Frac(a * S, b * D)
            /\ Frac(got * D - T * ad_moved.den, D * ad_moved.den)
                  = Frac(a * S, b * D)
            /\ Gain(ad_base, ad_moved, 3) = Frac(0, 1)
            /\ SumSeq(ad_moved.num) = ad_moved.den
            /\ ad_result = Renormalise(ClipProbs(ad_moved))

\* C11 witness: the fixed base vector was adjusted with a negative bias of
\* the table, and ratings 4 and 5 hold less than before, ratings 1 and 2
\* more.
C11_Witness ==
    /\ ad_pc = "returned"
    /\ ad_base = BASE_RATING_PROBS
    /\ ad_bias = CategoryBias("Electronics")
    /\ \A i \in {4, 5} : Gain(ad_moved, ad_base, i).n > 0
    /\ \A i \in {1, 2} : Gain(ad_base, ad_moved, i).n > 0

\* the run is over: main() has returned or an exception has ended it
RunOver == rv_pc \in {"done", "failed"}
\* rows were handed to the columnar writer
TableWritten == ~rv_out_is_csv /\ rv_sink # <<>>

\* C12 as stated: the writer handle is unopened, open or closed; it has
\* been opened exactly when a non-empty batch has been flushed to columnar
\* output, so every table is written to an opened writer and an empty
\* batch opens none; and whenever the run is over, by success or by a
\* failed read or write, a writer that was opened is closed.
C12_WriterClosedWhenRunOver ==
    /\ rv_parquet_writer \in {"None", "open", "closed"}
    /\ (rv_parquet_writer # "None") <=> TableWritten
    /\ (rv_parquet_writer = "closed") => rv_pc = "done"
    /\ (RunOver /\ rv_parquet_writer # "None") => rv_parquet_writer = "closed"

\* C13 as stated: a text of at most 100,000 characters is returned
\* unchanged; a longer one is cut to its prefix of exactly 100,000
\* characters; so the result is the prefix of the text of length
\* min(len(text), 100000); and truncating the result again changes nothing.
C13_PrefixOfExactlyTheCap ==
    /\ tr_pc \in {"returned", "again"} =>
          LET text == TextOf(tr_text)
              once == TextOf(tr_once)
          IN  /\ Len(text) <= MAX_REVIEW_CHARS => once = text
              /\ Len(text) > MAX_REVIEW_CHARS =>
                    once = SubSeq(text, 1, MAX_REVIEW_CHARS)
              /\ Len(once) = Min(Len(text), MAX_REVIEW_CHARS)
              /\ once = SubSeq(text, 1, Len(once))
    /\ tr_pc = "again" => tr_twice = tr_once

\* a review row without its date
WithoutDate(row) == [f \in (DOMAIN row) \ {"review_date"} |-> row[f]]
WrittenRows ==
    LET rows == SinkRows(rv_sink)
    IN  [i \in 1..Len(rows) |-> WithoutDate(rows[i])]
\* The rows a pass over the products in file order gives, with no batches
\* at all: for each product the count is drawn, then its reviews one after
\* the other, ids counting on from first_id.
DrawnReview(rng, p_row, review_id) ==
    LET pcat == ProductCategory(p_row, rv_args.category_column)
        persona == sample_persona(rng)
        rated == choose_rating_for_category(persona.rng, pcat)
        texted == make_review_text(rated.rng, rated.rating, p_row.name, pcat,
                                   persona.info)
        dated == sample_review_date(texted.rng, rv_now, rv_args.years_back)
    IN  [row |-> [review_id |-> review_id,
                  product_id |-> p_row.id,
                  product_name |-> p_row.name,
                  product_category |-> pcat,
                  rating |-> rated.rating,
                  review_text |-> texted.text,
                  reviewer_name |-> persona.info.reviewer_name,
                  reviewer_persona |-> persona.info.reviewer_persona,
                  reviewer_age |-> persona.info.reviewer_age,
                  reviewer_location |-> persona.info.reviewer_location],
         rng |-> dated.rng]
RECURSIVE DrawnReviews(_, _, _, _)
DrawnReviews(rng, p_row, first_id, n) ==
    IF n = 0 THEN [rows |-> <<>>, rng |-> rng]
    ELSE LET one == DrawnReview(rng, p_row, first_id)
             rest == DrawnReviews(one.rng, p_row, first_id + 1, n - 1)
         IN  [rows |-> <<one.row>> \o rest.rows, rng |-> rest.rng]
RECURSIVE DrawnRows(_, _, _)
DrawnRows(products, rng, first_id) ==
    IF products = <<>> THEN <<>>
    ELSE LET chosen == choose_num_reviews(rng, rv_args.max_reviews_per_product)
             mine == DrawnReviews(chosen.rng, Head(products), first_id, chosen.n)
         IN  mine.rows \o DrawnRows(Tail(products), mine.rng, first_id + chosen.n)
RowsOfUnbatchedPass == DrawnRows(FileRows, default_rng(rv_args.seed), 1)

\* C14: with a recognised output and a maximum the sampler accepts, the
\* rows written (dates aside) are at every moment a prefix of the rows
\* that a pass over the products in file order gives, which does not
\* depend on the batch size, and at the end of a run they are all of
\* them: the same rows in the same order for every batch size, none
\* missing, none twice; and every row carries the id and the name of a
\* product of the file.
C14_RowsIndependentOfBatchSize ==
    (RecognisedOutput /\ rv_args.max_reviews_per_product < TooManyReviews) =>
        /\ Len(WrittenRows) <= Len(RowsOfUnbatchedPass)
        /\ WrittenRows = SubSeq(RowsOfUnbatchedPass, 1, Len(WrittenRows))
        /\ rv_pc = "done" => WrittenRows = RowsOfUnbatchedPass
        /\ \A i \in 1..Len(WrittenRows) :
              \E j \in 1..Len(FileRows) :
                  /\ FileRows[j].id = WrittenRows[i].product_id
                  /\ FileRows[j].name = WrittenRows[i].product_name

\* C14 witness: a run that read its two row groups one product at a time
\* has ended, having written rows for at least two products in more than
\* one flush.
C14_Witness ==
    /\ rv_pc = "done"
    /\ rv_args.batch_size = 1
    /\ Len(rv_file) = 2
    /\ rv_batches_read >= 3
    /\ Len(WrittenRows) >= 3
    /\ Cardinality({ WrittenRows[i].product_id : i \in 1..Len(WrittenRows) }) >= 2

====
